---- MODULE Spec2Model ----
(***************************************************************************)
(* Model of the questionnaire recommendation engine of src/app.py:         *)
(* QUESTIONNAIRE_QUESTIONS (the question bank) and                         *)
(* calculate_course_recommendation (the scoring function), and of the two  *)
(* request handlers around it, questionnaire_submit and                    *)
(* questionnaire_results, with the QuestionnaireResponse table; and of the *)
(* handlers of the rest of the application that keep state: login,         *)
(* enroll, payment_callback, view_module and recommend_module.             *)
(*                                                                         *)
(* One invocation is modelled as a small state machine: Init holds the     *)
(* response mapping the function was called with, Iterate is one pass of   *)
(* the body of "for question_id, answer in responses.items()", and Finish  *)
(* is the code after the loop up to the return statement.  Each request    *)
(* handler is one action.                                                  *)
(***************************************************************************)
EXTENDS Integers, Sequences, FiniteSets, Bags, TLC

VARIABLES responses, idx, scores, pc, recommended_course, match_percentage,
          returned, store, issued, last,
          frames, progress, inflight, accounts, now, payments, repeats

(* responses .. match_percentage: the locals of one invocation of the      *)
(* engine.  returned: the invocations that have returned, each with its    *)
(* argument and result.  store: the rows of the QuestionnaireResponse      *)
(* table in insertion order.  issued: what each successful submission was  *)
(* answered with.  last: the request handled last and its outcome.         *)
(* frames: the call frames of the invocations of the engine that run at    *)
(* the same time.  progress, payments: the rows of the Progress and        *)
(* Payment tables.  inflight: the view_module requests that have read the  *)
(* table and not yet committed.  accounts: the lockout columns of the User *)
(* rows.  now: the clock, in minutes.  repeats: when the items of a        *)
(* mapping are drawn one pass at a time, whether an answer list drawn so   *)
(* far held a value twice.                                                 *)
vars == <<responses, idx, scores, pc, recommended_course, match_percentage,
          returned, store, issued, last,
          frames, progress, inflight, accounts, now, payments, repeats>>

webvars == <<store, issued, last>>

enginevars == <<responses, idx, scores, pc, recommended_course, match_percentage,
                returned, repeats>>

appvars == <<frames, progress, inflight, accounts, now, payments>>

----------------------------------------------------------------------------
(* The three course tracks, in the insertion order of the scores dict.     *)

Cyber == "Cybersecurity with AI"
Data == "Data Engineering for AI"
Web == "Web App Development with AI"

TrackOrder == <<Cyber, Data, Web>>

Tracks == {TrackOrder[i] : i \in 1..Len(TrackOrder)}

----------------------------------------------------------------------------
(* The question bank.  Labels, sections and prompts are display text only  *)
(* and are left out; ids, types, option values and score vectors are kept. *)

Opt(v, c, d, w) == [value |-> v, cyber |-> c, data |-> d, web |-> w]

Question(i, t, o) == [id |-> i, type |-> t, options |-> o]

QUESTIONNAIRE_QUESTIONS ==
  << Question("q1", "single",
       << Opt("absolute_beginner", 0, 0, 0), Opt("some_basics", 1, 2, 3),
          Opt("intermediate", 2, 3, 3), Opt("advanced", 3, 3, 3) >>),
     Question("q2", "single",
       << Opt("never", 0, 0, 0), Opt("online_tutorials", 1, 1, 1),
          Opt("bootcamp", 2, 2, 2), Opt("degree", 3, 3, 2) >>),
     Question("q3", "multiple",
       << Opt("excel_data", 0, 3, 0), Opt("python", 2, 3, 2),
          Opt("javascript", 1, 1, 3), Opt("databases", 1, 3, 2),
          Opt("security_tools", 3, 0, 0), Opt("none", 0, 0, 0) >>),
     Question("q4", "single",
       << Opt("protecting_systems", 5, 0, 0), Opt("analyzing_data", 0, 5, 1),
          Opt("building_apps", 0, 1, 5), Opt("ai_ml", 2, 4, 2) >>),
     Question("q5", "single",
       << Opt("security_operations", 5, 0, 0), Opt("data_analysis", 0, 5, 0),
          Opt("creative_design", 0, 0, 5), Opt("problem_solving", 3, 3, 3) >>),
     Question("q6", "single",
       << Opt("security_puzzles", 5, 1, 1), Opt("data_insights", 1, 5, 1),
          Opt("user_experience", 0, 1, 5), Opt("system_architecture", 2, 3, 3) >>),
     Question("q7", "single",
       << Opt("security_specialist", 5, 0, 0), Opt("data_scientist", 0, 5, 0),
          Opt("fullstack_dev", 0, 1, 5), Opt("tech_entrepreneur", 1, 2, 4) >>),
     Question("q8", "multiple",
       << Opt("networking", 3, 1, 1), Opt("programming", 2, 3, 3),
          Opt("data_analysis", 1, 3, 1), Opt("web_design", 0, 0, 3),
          Opt("problem_solving", 2, 3, 2), Opt("none_yet", 0, 0, 0) >>),
     Question("q9", "single",
       << Opt("hands_on", 2, 2, 3), Opt("theory_first", 3, 3, 1),
          Opt("video_tutorials", 1, 2, 2), Opt("mixed", 2, 2, 2) >>),
     Question("q10", "single",
       << Opt("less_5", 0, 0, 0), Opt("5_10", 1, 1, 1),
          Opt("10_20", 2, 2, 2), Opt("20_plus", 3, 3, 3) >>),
     Question("q11", "single",
       << Opt("detective", 5, 2, 1), Opt("analyst", 1, 5, 2),
          Opt("builder", 1, 2, 5), Opt("researcher", 3, 3, 3) >>),
     Question("q12", "single",
       << Opt("security_analyst", 5, 0, 0), Opt("data_engineer", 0, 5, 0),
          Opt("web_developer", 0, 1, 5), Opt("ml_engineer", 1, 5, 1) >>),
     Question("q13", "single",
       << Opt("fintech", 4, 3, 3), Opt("cybersecurity", 5, 1, 0),
          Opt("tech_startups", 2, 3, 5), Opt("ecommerce", 2, 3, 4) >>),
     Question("q14", "single",
       << Opt("entry", 1, 1, 1), Opt("mid", 2, 2, 2),
          Opt("senior", 3, 3, 3), Opt("lead", 3, 3, 3) >>),
     Question("q15", "single",
       << Opt("lagos", 2, 2, 2), Opt("accra", 1, 1, 2),
          Opt("remote", 2, 3, 3), Opt("flexible", 2, 2, 2) >>),
     Question("q16", "single",
       << Opt("career_change", 2, 2, 2), Opt("job_security", 3, 2, 2),
          Opt("passion", 2, 2, 3), Opt("entrepreneurship", 1, 2, 4) >>) >>

----------------------------------------------------------------------------
(* Answers.  Python compares a str, a list and None without error; the     *)
(* three shapes are kept apart by a tag so that the model compares them    *)
(* the same way: values of different shapes are never equal.               *)

StrAns(v) == [kind |-> "str", val |-> v, vals |-> <<>>]

ListAns(s) == [kind |-> "list", val |-> "", vals |-> s]

NoneAns == [kind |-> "none", val |-> "", vals |-> <<>>]

Entry(q, a) == [id |-> q, answer |-> a]

----------------------------------------------------------------------------
(* Helpers of calculate_course_recommendation.                             *)

(* Variant: a default of the first question instead of None.               *)
FindQuestion_Fallback(question_id) ==
  LET hits == {i \in 1..Len(QUESTIONNAIRE_QUESTIONS) :
                 QUESTIONNAIRE_QUESTIONS[i].id = question_id}
  IN IF hits = {} THEN 1
     ELSE CHOOSE i \in hits : \A j \in hits : i <= j

(* question = next((q for q in QUESTIONNAIRE_QUESTIONS                     *)
(*                  if q['id'] == question_id), None)                      *)
(* The position of the first question with that id; 0 stands for None.     *)
FindQuestion(question_id) ==
  LET hits == {i \in 1..Len(QUESTIONNAIRE_QUESTIONS) :
                 QUESTIONNAIRE_QUESTIONS[i].id = question_id}
  IN IF hits = {} THEN 0
     ELSE CHOOSE i \in hits : \A j \in hits : i <= j

(* opt['value'] == answer: a str equals a str with the same characters; a  *)
(* list or None never equals an option value.                              *)
ValueEq(value, answer) == answer.kind = "str" /\ answer.val = value

(* option = next((opt for opt in question['options']                       *)
(*                if opt['value'] == answer), None)                        *)
(* The position of the first option with that value; 0 stands for None.    *)
FindOption(question, answer) ==
  LET hits == {i \in 1..Len(question.options) :
                 ValueEq(question.options[i].value, answer)}
  IN IF hits = {} THEN 0
     ELSE CHOOSE i \in hits : \A j \in hits : i <= j

(* Variant: the data component read for the cyber track.                   *)
AddOption_WrongKey(sc, option) ==
  [sc EXCEPT ![Cyber] = @ + option.data,
             ![Data] = @ + option.data,
             ![Web] = @ + option.web]

(* Variant: "=" in place of "+=".                                          *)
AddOption_Overwrite(sc, option) ==
  [sc EXCEPT ![Cyber] = option.cyber,
             ![Data] = option.data,
             ![Web] = option.web]

(* The three "scores[...] += option.get(..., 0)" statements.               *)
AddOption(sc, option) ==
  [sc EXCEPT ![Cyber] = @ + option.cyber,
             ![Data] = @ + option.data,
             ![Web] = @ + option.web]

(* Variant: the three statements run twice for a selection.                *)
AddAnswer_Twice(sc, question, answer) ==
  LET o == FindOption(question, answer)
  IN IF o = 0 THEN sc ELSE AddOption(AddOption(sc, question.options[o]), question.options[o])

(* One resolved-or-skipped selection: "option = next(...); if option: ..." *)
AddAnswer(sc, question, answer) ==
  LET o == FindOption(question, answer)
  IN IF o = 0 THEN sc ELSE AddOption(sc, question.options[o])

(* Variant: the loop ends at the first value that is no option.            *)
RECURSIVE AddAnswers_StopAtUnknown(_, _, _, _)
AddAnswers_StopAtUnknown(sc, question, vals, i) ==
  IF i > Len(vals) \/ FindOption(question, StrAns(vals[i])) = 0 THEN sc
  ELSE AddAnswers_StopAtUnknown(AddAnswer(sc, question, StrAns(vals[i])),
                                question, vals, i + 1)

(* Variant: "for ans_value in set(answer):", a repeated value counted once. *)
RECURSIVE AddAnswers_Dedup(_, _, _, _)
AddAnswers_Dedup(sc, question, vals, i) ==
  IF i > Len(vals) THEN sc
  ELSE AddAnswers_Dedup(
         IF \E j \in 1..(i - 1) : vals[j] = vals[i] THEN sc
         ELSE AddAnswer(sc, question, StrAns(vals[i])),
         question, vals, i + 1)

(* "for ans_value in answer:" from position i of the list on.              *)
RECURSIVE AddAnswers(_, _, _, _)
AddAnswers(sc, question, vals, i) ==
  IF i > Len(vals) THEN sc
  ELSE AddAnswers(AddAnswer(sc, question, StrAns(vals[i])), question, vals, i + 1)

(* Variant: no isinstance test before the inner loop.                      *)
IsList_Any(answer) == TRUE

(* isinstance(answer, list)                                                *)
IsList(answer) == answer.kind = "list"

(* "for ans_value in answer" raises TypeError unless answer is iterable: a *)
(* list gives its elements and a str its characters, None raises.          *)
Iterable(answer) == answer.kind \in {"list", "str"}

(* Whether the body of the loop raises for an entry: the inner for         *)
(* statement is the one operation of the body that depends on the shape of *)
(* the answer (== between values of any shape is False, not an error).     *)
EntryRaises(entry) ==
  LET q == FindQuestion(entry.id)
  IN /\ q # 0
     /\ QUESTIONNAIRE_QUESTIONS[q].type # "single"
     /\ QUESTIONNAIRE_QUESTIONS[q].type = "multiple" /\ IsList(entry.answer)
     /\ ~Iterable(entry.answer)

(* Variant: the elif branch never taken.                                   *)
ProcessEntry_SingleOnly(sc, entry) ==
  LET q == FindQuestion(entry.id)
  IN IF q = 0 THEN sc
     ELSE IF QUESTIONNAIRE_QUESTIONS[q].type = "single"
       THEN AddAnswer(sc, QUESTIONNAIRE_QUESTIONS[q], entry.answer)
     ELSE sc

(* The body of "for question_id, answer in responses.items():".            *)
ProcessEntry(sc, entry) ==
  LET q == FindQuestion(entry.id)
  IN IF q = 0 THEN sc
     ELSE LET question == QUESTIONNAIRE_QUESTIONS[q]
          IN IF question.type = "single"
               THEN AddAnswer(sc, question, entry.answer)
             ELSE IF question.type = "multiple" /\ IsList(entry.answer)
               THEN AddAnswers(sc, question, entry.answer.vals, 1)
             ELSE sc

(* scores = {'Cybersecurity with AI': 0, ...}                              *)
ZeroScores == [t \in Tracks |-> 0]

(* The whole loop, from entry i of the mapping on.                         *)
RECURSIVE ScoreFrom(_, _, _)
ScoreFrom(sc, resp, i) ==
  IF i > Len(resp) THEN sc
  ELSE ScoreFrom(ProcessEntry(sc, resp[i]), resp, i + 1)

(* max(scores.values())                                                    *)
MaxValue(sc) == CHOOSE v \in {sc[t] : t \in Tracks} : \A t \in Tracks : sc[t] <= v

(* Variant: a later key replaces the best one also when equal.             *)
RECURSIVE MaxKeyFrom_LastWins(_, _, _)
MaxKeyFrom_LastWins(sc, best, i) ==
  IF i > Len(TrackOrder) THEN best
  ELSE MaxKeyFrom_LastWins(sc, IF sc[TrackOrder[i]] >= sc[best] THEN TrackOrder[i] ELSE best,
                           i + 1)

(* max(scores, key=scores.get): the dict's keys are visited in insertion   *)
(* order and a later key replaces the best one only when strictly greater. *)
RECURSIVE MaxKeyFrom(_, _, _)
MaxKeyFrom(sc, best, i) ==
  IF i > Len(TrackOrder) THEN best
  ELSE MaxKeyFrom(sc, IF sc[TrackOrder[i]] > sc[best] THEN TrackOrder[i] ELSE best, i + 1)

(* Variant: max(scores) without key=, the greatest key as a string.        *)
MaxByKey_NoKey(sc) == Web

MaxByKey(sc) == MaxKeyFrom(sc, TrackOrder[1], 2)

PerQuestionMax == 5

(* Variant: a cap of 100.                                                  *)
PercentCap_Hundred == 99 + 1

PercentCap == 99

DefaultPercent == 60

DefaultCourse == Web

(* int((max_score / total_possible) * 100) in IEEE double arithmetic.  The *)
(* quotient and the product are each rounded to the nearest double, so the *)
(* truncated value is one short of the exact floor for the numerators of   *)
(* FloatShort (total_possible = 80, max_score < 328; every other numerator *)
(* in that range gives the exact floor).                                   *)
FloatShort == {92, 164, 184, 204}

(* Variant: floor division before the multiplication.                      *)
FloatPercent_FloorFirst(max_score, total_possible) ==
  (max_score \div total_possible) * 100

FloatPercent(max_score, total_possible) ==
  ((max_score * 100) \div total_possible)
    - (IF total_possible = 80 /\ max_score \in FloatShort THEN 1 ELSE 0)

Min(a, b) == IF a <= b THEN a ELSE b

(* Variant: no branch for max_score == 0.                                  *)
RecommendedCourse_NoDefault(sc) == MaxByKey(sc)

(* The if/else after the loop: the recommended course ...                  *)
RecommendedCourse(sc) ==
  IF MaxValue(sc) = 0 THEN DefaultCourse ELSE MaxByKey(sc)

(* Variant: no min(..., 99).                                               *)
MatchPercentage_NoCap(sc) ==
  IF MaxValue(sc) = 0 THEN DefaultPercent
  ELSE FloatPercent(MaxValue(sc), Len(QUESTIONNAIRE_QUESTIONS) * PerQuestionMax)

(* ... and the match percentage.                                           *)
MatchPercentage(sc) ==
  IF MaxValue(sc) = 0 THEN DefaultPercent
  ELSE LET total_possible == Len(QUESTIONNAIRE_QUESTIONS) * PerQuestionMax
       IN Min(FloatPercent(MaxValue(sc), total_possible), PercentCap)

(* Whether the function raises for a mapping.                              *)
Raises(resp) == \E i \in 1..Len(resp) : EntryRaises(resp[i])

(* The function as a whole: (recommended_course, match_percentage, scores) *)
calculate_course_recommendation(resp) ==
  LET sc == ScoreFrom(ZeroScores, resp, 1)
  IN <<RecommendedCourse(sc), MatchPercentage(sc), sc>>

----------------------------------------------------------------------------
(* The response mappings the function is called with.  A dict is modelled  *)
(* as the sequence of its items in iteration order, with distinct keys.    *)

MaxEntries == 2

MaxListLen == 2

MaxRepeat == 30

SeqsUpTo(S, n) == UNION {[1..k -> S] : k \in 0..n}

OptionValues(question) ==
  {question.options[i].value : i \in 1..Len(question.options)}

(* A value that is an option of no question, and an id of no question.     *)
NoSuchValue == "no_such_value"

NoSuchId == "q99"

BankIds == {QUESTIONNAIRE_QUESTIONS[i].id : i \in 1..Len(QUESTIONNAIRE_QUESTIONS)}

(* The answers tried for a question id: every option value of the question *)
(* and a foreign value as a str, None, and lists of those values up to     *)
(* length n.  Every shape is tried for either cardinality, so answers that *)
(* do not fit the question's type are among them.  An unknown id is tried  *)
(* with values that are options of other questions.                        *)
AnswersFor(question_id, n) ==
  LET q == FindQuestion(question_id)
      values == IF q = 0 THEN {"advanced", "python"}
                ELSE OptionValues(QUESTIONNAIRE_QUESTIONS[q]) \cup {NoSuchValue}
      lists == IF q # 0 /\ QUESTIONNAIRE_QUESTIONS[q].type = "multiple"
                 THEN SeqsUpTo(values, n)
               ELSE {<<v>> : v \in {"advanced", "python"}}
  IN {StrAns(v) : v \in values} \cup {NoneAns} \cup {ListAns(l) : l \in lists}

DistinctIds(resp) ==
  \A i, j \in 1..Len(resp) : resp[i].id = resp[j].id => i = j

(* The answers whose shape fits the question: a str for a single question  *)
(* and for an unknown id, a list of at most n values for a multiple one.   *)
FittingAnswersFor(question_id, n) ==
  {a \in AnswersFor(question_id, n) :
     a.kind = (IF FindQuestion(question_id) # 0
                  /\ QUESTIONNAIRE_QUESTIONS[FindQuestion(question_id)].type = "multiple"
               THEN "list" ELSE "str")}

(* Mappings with at most one entry: any id of the bank or an unknown one,  *)
(* any answer, lists up to MaxListLen.                                     *)
SingleEntryResponses ==
  SeqsUpTo(UNION {{Entry(q, a) : a \in AnswersFor(q, MaxListLen)} :
                    q \in BankIds \cup {NoSuchId}}, 1)

(* Mappings with up to MaxEntries entries, in every iteration order, over  *)
(* four questions of the bank and an unknown id, with fitting answers and  *)
(* lists of at most one value.                                             *)
MultiEntryIds == {"q1", "q3", "q4", "q5", NoSuchId}

MultiEntryResponses ==
  {r \in SeqsUpTo(UNION {{Entry(q, a) : a \in FittingAnswersFor(q, 1)} :
                           q \in MultiEntryIds}, MaxEntries) : DistinctIds(r)}

(* Mappings whose answer to the multiple question q3 repeats one value up  *)
(* to MaxRepeat times, next to an answer to the single question q4: the    *)
(* scores that reach and pass total_possible.                              *)
Repeated(v, n) == [i \in 1..n |-> v]

RepeatResponses ==
  {<<Entry("q4", StrAns(v)), Entry("q3", ListAns(Repeated(w, n)))>> :
     v \in {"protecting_systems", "building_apps"},
     w \in OptionValues(QUESTIONNAIRE_QUESTIONS[FindQuestion("q3")]),
     n \in 0..MaxRepeat}

ResponseSets == SingleEntryResponses \cup MultiEntryResponses \cup RepeatResponses

----------------------------------------------------------------------------
(* One invocation of calculate_course_recommendation(responses).           *)

NoCourse == "unset"

(* No request handled yet.                                                 *)
NoRequest == [op |-> "none"]

(* The rest of the application before any request: empty tables, no user.  *)
NoApp ==
  /\ frames = <<>>
  /\ progress = <<>>
  /\ inflight = <<>>
  /\ accounts = <<>>
  /\ now = 0
  /\ payments = <<>>

(* The state around the engine before any request: an empty table.         *)
NoRequests ==
  /\ returned = <<>>
  /\ repeats = FALSE
  /\ store = <<>>
  /\ issued = {}
  /\ last = NoRequest
  /\ NoApp

Init ==
  /\ responses \in ResponseSets
  /\ idx = 1
  /\ scores = ZeroScores
  /\ pc = "loop"
  /\ recommended_course = NoCourse
  /\ match_percentage = 0
  /\ NoRequests

(* One pass of the for loop over responses.items(); an exception in the    *)
(* body ends the invocation.                                               *)
Iterate ==
  /\ pc = "loop"
  /\ idx <= Len(responses)
  /\ IF EntryRaises(responses[idx])
       THEN pc' = "error" /\ UNCHANGED <<scores, idx>>
       ELSE /\ scores' = ProcessEntry(scores, responses[idx])
            /\ idx' = idx + 1
            /\ pc' = pc
  /\ UNCHANGED <<responses, recommended_course, match_percentage, returned, repeats,
                 webvars, appvars>>

(* The code after the loop: max_score, the if/else and the return.         *)
Finish ==
  /\ pc = "loop"
  /\ idx > Len(responses)
  /\ recommended_course' = RecommendedCourse(scores)
  /\ match_percentage' = MatchPercentage(scores)
  /\ pc' = "done"
  /\ UNCHANGED <<responses, idx, scores, returned, repeats, webvars, appvars>>

Next == Iterate \/ Finish

Spec == Init /\ [][Next]_vars

----------------------------------------------------------------------------
(* Invocations with every question answered by an option whose cyber       *)
(* component is the greatest of its question (one selection for a multiple *)
(* question), the items in bank order or in the opposite order.            *)

MaxCyber(question) ==
  CHOOSE c \in {question.options[i].cyber : i \in 1..Len(question.options)} :
    \A i \in 1..Len(question.options) : question.options[i].cyber <= c

TopCyberAnswers(question) ==
  {IF question.type = "single" THEN StrAns(question.options[i].value)
   ELSE ListAns(<<question.options[i].value>>) :
     i \in {j \in 1..Len(question.options) : question.options[j].cyber = MaxCyber(question)}}

RECURSIVE TopCyberFrom(_)
TopCyberFrom(n) ==
  IF n > Len(QUESTIONNAIRE_QUESTIONS) THEN {<<>>}
  ELSE {<<Entry(QUESTIONNAIRE_QUESTIONS[n].id, a)>> \o r :
          a \in TopCyberAnswers(QUESTIONNAIRE_QUESTIONS[n]), r \in TopCyberFrom(n + 1)}

Reverse(resp) == [i \in 1..Len(resp) |-> resp[Len(resp) + 1 - i]]

ScenarioAResponses == TopCyberFrom(1) \cup {Reverse(r) : r \in TopCyberFrom(1)}

InitScenarioA ==
  /\ responses \in ScenarioAResponses
  /\ idx = 1
  /\ scores = ZeroScores
  /\ pc = "loop"
  /\ recommended_course = NoCourse
  /\ match_percentage = 0
  /\ NoRequests

SpecScenarioA == InitScenarioA /\ [][Next]_vars

----------------------------------------------------------------------------
(* Several invocations one after the other.                                *)

MaxCalls == 2

(* Mappings over three answers, in every iteration order.                  *)
CallResponses ==
  {r \in SeqsUpTo({Entry("q4", StrAns("protecting_systems")),
                   Entry("q5", StrAns("creative_design")),
                   Entry("q3", ListAns(<<"python", "python">>))}, 2) : DistinctIds(r)}

(* Variant: scores is a module-level dict that outlives the call.          *)
StartScores_Shared(previous) == previous

(* "scores = {...: 0, ...}" on entry: a new dict whatever the previous     *)
(* invocation left behind.                                                 *)
StartScores(previous) == ZeroScores

InitCalls ==
  /\ responses \in CallResponses
  /\ idx = 1
  /\ scores = ZeroScores
  /\ pc = "loop"
  /\ recommended_course = NoCourse
  /\ match_percentage = 0
  /\ NoRequests

(* The invocation returns to its caller and the function is called again.  *)
Call ==
  /\ pc = "done"
  /\ Len(returned) < MaxCalls
  /\ returned' = Append(returned,
                        [responses |-> responses,
                         result |-> <<recommended_course, match_percentage, scores>>])
  /\ responses' \in CallResponses
  /\ idx' = 1
  /\ scores' = StartScores(scores)
  /\ pc' = "loop"
  /\ recommended_course' = NoCourse
  /\ match_percentage' = 0
  /\ UNCHANGED <<webvars, appvars, repeats>>

NextCalls == Iterate \/ Finish \/ Call

SpecCalls == InitCalls /\ [][NextCalls]_vars

----------------------------------------------------------------------------
(* The request handlers questionnaire_submit and questionnaire_results     *)
(* with the Course and QuestionnaireResponse tables.                       *)

(* The Course table after database initialization: the seeded titles in    *)
(* insertion order, the primary key being the position.  No handler adds,  *)
(* renames or deletes a course.                                            *)
COURSES == <<"Cybersecurity with AI", "Data Engineering for AI",
             "Web App Development with AI">>

(* Variant: .first() without the title filter.                             *)
FindCourse_Unfiltered(title) == 1

(* Course.query.filter_by(title=...).first(): the id, 0 standing for None. *)
FindCourse(title) ==
  LET hits == {i \in 1..Len(COURSES) : COURSES[i] = title}
  IN IF hits = {} THEN 0 ELSE CHOOSE i \in hits : \A j \in hits : i <= j

(* response.recommended_course: the course the foreign key refers to, the  *)
(* empty string standing for None.                                         *)
CourseOfRow(row) ==
  IF row.recommended_course_id \in 1..Len(COURSES) THEN COURSES[row.recommended_course_id]
  ELSE ""

(* The least number of non-empty answers questionnaire_submit accepts.     *)
MinAnswers == 5

(* The form of a request: for each field name the values submitted under   *)
(* it, in order; a field that was not submitted has none.                  *)
MaxAnswered == 6

(* A form that answers the first k questions of the bank, each by its p-th *)
(* option (by a value that is no option for p = 0), and submits the other  *)
(* single-choice fields either not at all or empty.                        *)
FormOf(p, k, blank) ==
  [id \in BankIds |->
     LET n == FindQuestion(id)
     IN IF n <= k
          THEN <<IF p = 0 THEN NoSuchValue ELSE QUESTIONNAIRE_QUESTIONS[n].options[p].value>>
        ELSE IF blank /\ QUESTIONNAIRE_QUESTIONS[n].type = "single" THEN <<"">>
        ELSE <<>>]

(* The forms submitted: the empty one and those on either side of the      *)
(* threshold of the handler.                                               *)
Forms ==
  {FormOf(p, k, blank) : p \in 0..3, k \in {0} \cup (MinAnswers - 1)..MaxAnswered,
                         blank \in BOOLEAN}

(* The loop that builds responses: request.form.getlist for a multiple     *)
(* question, request.form.get (the first value, or None) for a single one. *)
BuildResponses(form) ==
  [n \in 1..Len(QUESTIONNAIRE_QUESTIONS) |->
     LET question == QUESTIONNAIRE_QUESTIONS[n]
     IN Entry(question.id,
              IF question.type = "multiple" THEN ListAns(form[question.id])
              ELSE IF form[question.id] = <<>> THEN NoneAns
              ELSE StrAns(form[question.id][1]))]

(* Variant: "if v is not None".                                            *)
Truthy_NotNone(answer) == answer.kind # "none"

(* "if v": None, the empty str and the empty list are false.               *)
Truthy(answer) ==
  \/ answer.kind = "str" /\ answer.val # ""
  \/ answer.kind = "list" /\ answer.vals # <<>>

(* len([v for v in responses.values() if v])                               *)
AnsweredCount(resp) == Cardinality({i \in 1..Len(resp) : Truthy(resp[i].answer)})

(* Session ids.  A token is the sequence of its characters.                *)
SessionIdLen == 43

(* generate_session_id(): secrets.token_urlsafe(32) gives 43 characters of *)
(* the URL-safe alphabet.  Two such tokens are drawn from, so that a token *)
(* can come up again.                                                      *)
GeneratedTokens == {Repeated("a", SessionIdLen - 1) \o <<c>> : c \in {"a", "-"}}

(* The character class [A-Za-z0-9_-], over the characters the tokens of    *)
(* the model are made of.                                                  *)
IsTokenChar(c) == c \in {"a", "Z", "7", "_", "-"}

(* re.match(r'^[A-Za-z0-9_-]+$', session_id): one or more characters of    *)
(* the class from the start, up to the end of the string or up to a        *)
(* newline that is the last character of the string ("$" without           *)
(* re.MULTILINE matches at both places).                                   *)
RegexMatch(token) ==
  LET n == IF token # <<>> /\ token[Len(token)] = "\n" THEN Len(token) - 1 ELSE Len(token)
  IN n >= 1 /\ \A i \in 1..n : IsTokenChar(token[i])

TokenLimit == 100

(* The test before abort(404), negated.                                    *)
ValidToken(token) ==
  ~(token = <<>> \/ Len(token) > TokenLimit \/ ~RegexMatch(token))

(* Variant: a LIKE 'token%' filter.                                        *)
LookupRow_Prefix(table, token) ==
  LET hits == {i \in 1..Len(table) :
                 /\ Len(token) <= Len(table[i].session_id)
                 /\ SubSeq(table[i].session_id, 1, Len(token)) = token}
  IN IF hits = {} THEN 0 ELSE CHOOSE i \in hits : \A j \in hits : i <= j

(* QuestionnaireResponse.query.filter_by(session_id=...).first(): the      *)
(* position of the first row with that session id, 0 standing for None.    *)
LookupRow(table, token) ==
  LET hits == {i \in 1..Len(table) : table[i].session_id = token}
  IN IF hits = {} THEN 0 ELSE CHOOSE i \in hits : \A j \in hits : i <= j

(* The row questionnaire_submit builds from the engine's result.  The      *)
(* echoed answers, the timestamp and the ip address are written once with  *)
(* the row and read by no handler; they are left out.                      *)
NewRow(token, result) ==
  [session_id |-> token,
   recommended_course_id |-> FindCourse(result[1]),
   match_percentage |-> result[2]]

(* Variant: no unique constraint on session_id.                            *)
Commit_NoUnique(table, row) == Append(table, row)

(* Variant: db.session.merge on the session id, an existing row replaced.  *)
Commit_Upsert(table, row) ==
  IF LookupRow(table, row.session_id) # 0
    THEN [table EXCEPT ![LookupRow(table, row.session_id)] = row]
  ELSE Append(table, row)

(* db.session.add(row); db.session.commit(): the unique constraint on      *)
(* session_id makes the commit fail, and the except branch roll back, when *)
(* a row with that session id exists; the table is then as before.         *)
Commit(table, row) ==
  IF \E i \in 1..Len(table) : table[i].session_id = row.session_id THEN table
  ELSE Append(table, row)

Outcome(op, resp, token, outcome, engine, queried, row, course, pct) ==
  [op |-> op, responses |-> resp, token |-> token, outcome |-> outcome,
   engine |-> engine, queried |-> queried, row |-> row, course |-> course, pct |-> pct]

(* What the handler computes from the form alone, before it touches the    *)
(* table: the responses, whether enough are answered, and what the engine  *)
(* does with them.  Tabulated once for the forms of the model.             *)
Prepared ==
  [form \in Forms |->
     LET resp == BuildResponses(form)
     IN [responses |-> resp,
         enough |-> ~(AnsweredCount(resp) < MinAnswers),
         raises |-> Raises(resp),
         result |-> calculate_course_recommendation(resp)]]

(* POST /questionnaire/submit with a form; token is what                   *)
(* generate_session_id() returns if it is reached.                         *)
SubmitRequest(form, token) ==
  LET resp == Prepared[form].responses
      result == Prepared[form].result
      row == NewRow(token, result)
  IN /\ IF ~Prepared[form].enough
          THEN /\ last' = Outcome("submit", resp, <<>>, "rejected", FALSE, FALSE, 0, "", 0)
               /\ UNCHANGED <<store, issued>>
        ELSE IF Prepared[form].raises \/ Commit(store, row) = store
          THEN /\ last' = Outcome("submit", resp, IF Prepared[form].raises THEN <<>> ELSE token,
                                  "error", TRUE, FALSE, 0, "", 0)
               /\ UNCHANGED <<store, issued>>
        ELSE /\ store' = Commit(store, row)
             /\ issued' = issued \cup {[token |-> token, course |-> result[1],
                                        pct |-> result[2]]}
             /\ last' = Outcome("submit", resp, token, "stored", TRUE, FALSE, 0, "", 0)
     /\ UNCHANGED <<enginevars, appvars>>

Submit == \E form \in Forms, token \in GeneratedTokens : SubmitRequest(form, token)

(* GET /results/<session_id>.                                              *)
ResultsRequest(token) ==
  LET r == LookupRow(store, token)
  IN /\ last' =
          IF ~ValidToken(token)
            THEN Outcome("results", <<>>, token, "not_found", FALSE, FALSE, 0, "", 0)
          ELSE IF r = 0
            THEN Outcome("results", <<>>, token, "not_found", FALSE, TRUE, 0, "", 0)
          ELSE IF CourseOfRow(store[r]) = ""
            THEN Outcome("results", <<>>, token, "no_course", FALSE, TRUE, r, "", 0)
          ELSE Outcome("results", <<>>, token, "shown", FALSE, TRUE, r,
                       CourseOfRow(store[r]), store[r].match_percentage)
     /\ UNCHANGED <<enginevars, store, issued, appvars>>

MaxTokenLen == 2

(* The tokens looked up: every short string over a character of the class, *)
(* one outside it and the newline, the generated tokens, each of them      *)
(* followed by a newline, and strings of TokenLimit and TokenLimit + 1     *)
(* characters of the class.                                                *)
LookupTokens ==
  SeqsUpTo({"a", "!", "\n"}, MaxTokenLen)
    \cup GeneratedTokens
    \cup {t \o <<"\n">> : t \in GeneratedTokens}
    \cup {Repeated("a", TokenLimit), Repeated("a", TokenLimit + 1)}

Results == \E token \in LookupTokens : ResultsRequest(token)

InitWeb ==
  /\ responses = <<>>
  /\ idx = 1
  /\ scores = ZeroScores
  /\ pc = "loop"
  /\ recommended_course = NoCourse
  /\ match_percentage = 0
  /\ NoRequests

NextWeb == Submit \/ Results

SpecWeb == InitWeb /\ [][NextWeb]_vars

----------------------------------------------------------------------------
(* Several invocations of the engine at the same time, one per request     *)
(* being served, their steps interleaved.                                  *)

MaxInvocations == 2

Invocations == 1..MaxInvocations

(* Variant: scores is one module-level dict, the one of the first frame.   *)
ScoresOwner_Shared(p) == 1

(* "scores = {...}" binds a local name: the dict an invocation adds to is  *)
(* the one of its own frame.                                               *)
ScoresOwner(p) == p

(* The frame of an invocation called with a mapping, before its first      *)
(* statement.  overlapped records whether another invocation was inside    *)
(* its loop when this one made a pass of its own.                          *)
NewFrame(resp) ==
  [responses |-> resp, idx |-> 1, scores |-> ZeroScores, pc |-> "start",
   recommended_course |-> NoCourse, match_percentage |-> 0, result_scores |-> ZeroScores,
   overlapped |-> FALSE]

InitConcurrent ==
  /\ frames \in [Invocations -> {NewFrame(r) : r \in CallResponses}]
  /\ responses = <<>>
  /\ idx = 1
  /\ scores = ZeroScores
  /\ pc = "loop"
  /\ recommended_course = NoCourse
  /\ match_percentage = 0
  /\ returned = <<>>
  /\ repeats = FALSE
  /\ store = <<>>
  /\ issued = {}
  /\ last = NoRequest
  /\ progress = <<>>
  /\ inflight = <<>>
  /\ accounts = <<>>
  /\ now = 0
  /\ payments = <<>>

(* The first statement: a new dict of zeros.                               *)
Enter(p) ==
  /\ frames[p].pc = "start"
  /\ frames' = [frames EXCEPT ![ScoresOwner(p)].scores = ZeroScores, ![p].pc = "loop"]
  /\ UNCHANGED <<enginevars, webvars, progress, inflight, accounts, now, payments>>

(* One pass of the loop in invocation p.                                   *)
IterateIn(p) ==
  LET f == frames[p]
      o == ScoresOwner(p)
  IN /\ f.pc = "loop"
     /\ f.idx <= Len(f.responses)
     /\ frames' =
          IF EntryRaises(f.responses[f.idx]) THEN [frames EXCEPT ![p].pc = "error"]
          ELSE [frames EXCEPT
                  ![o].scores = ProcessEntry(frames[o].scores, f.responses[f.idx]),
                  ![p].idx = f.idx + 1,
                  ![p].overlapped =
                     f.overlapped \/ \E q \in Invocations \ {p} : frames[q].pc = "loop"]
     /\ UNCHANGED <<enginevars, webvars, progress, inflight, accounts, now, payments>>

(* The code after the loop in invocation p, up to its return.              *)
FinishIn(p) ==
  LET f == frames[p]
      sc == frames[ScoresOwner(p)].scores
  IN /\ f.pc = "loop"
     /\ f.idx > Len(f.responses)
     /\ frames' = [frames EXCEPT ![p].recommended_course = RecommendedCourse(sc),
                                 ![p].match_percentage = MatchPercentage(sc),
                                 ![p].result_scores = sc,
                                 ![p].pc = "done"]
     /\ UNCHANGED <<enginevars, webvars, progress, inflight, accounts, now, payments>>

NextConcurrent == \E p \in Invocations : Enter(p) \/ IterateIn(p) \/ FinishIn(p)

SpecConcurrent == InitConcurrent /\ [][NextConcurrent]_vars

----------------------------------------------------------------------------
(* Modules and progress: view_module and recommend_module.                 *)

(* No invocation of the engine and no questionnaire request.               *)
NoEngine ==
  /\ responses = <<>>
  /\ idx = 1
  /\ scores = ZeroScores
  /\ pc = "loop"
  /\ recommended_course = NoCourse
  /\ match_percentage = 0
  /\ returned = <<>>
  /\ repeats = FALSE
  /\ store = <<>>
  /\ issued = {}
  /\ last = NoRequest

ModulesPerCourse == 3

(* The Module table as seeded: for each course in turn its three modules,  *)
(* order = 0, 1, 2, with ids in insertion order.                           *)
MODULES ==
  [i \in 1..(Len(COURSES) * ModulesPerCourse) |->
     [id |-> i,
      course_id |-> ((i - 1) \div ModulesPerCourse) + 1,
      order |-> (i - 1) % ModulesPerCourse]]

(* order_by(Module.order, Module.id)                                       *)
ModuleBefore(a, b) == a.order < b.order \/ (a.order = b.order /\ a.id < b.id)

RECURSIVE Ordered(_)
Ordered(S) ==
  IF S = {} THEN <<>>
  ELSE LET first == CHOOSE a \in S : \A b \in S \ {a} : ModuleBefore(a, b)
       IN <<first>> \o Ordered(S \ {first})

(* Module.query.filter_by(course_id=course_id).order_by(...).all()         *)
CourseModules(course_id) ==
  Ordered({MODULES[i] : i \in {j \in 1..Len(MODULES) : MODULES[j].course_id = course_id}})

(* The Progress table is the bag of its rows.                              *)
ProgressRow(user_id, module_id, completed) ==
  [user_id |-> user_id, module_id |-> module_id, completed |-> completed]

RECURSIVE RowCount(_, _)
RowCount(table, rows) ==
  IF rows = {} THEN 0
  ELSE LET row == CHOOSE r \in rows : TRUE
       IN CopiesIn(row, table) + RowCount(table, rows \ {row})

(* Variant: every completed row of the user is counted, whatever its       *)
(* module.                                                                 *)
CompletedCount_AnyCourse(table, user_id, module_ids) ==
  RowCount(table, {r \in BagToSet(table) : r.user_id = user_id /\ r.completed})

(* Progress.query.filter(user_id == ..., module_id.in_(module_ids),        *)
(* completed == True).count()                                              *)
CompletedCount(table, user_id, module_ids) ==
  RowCount(table, {r \in BagToSet(table) :
                     r.user_id = user_id /\ r.module_id \in module_ids /\ r.completed})

NoModule == 0

(* recommend_module over a given Progress table: the id of the module      *)
(* returned, NoModule standing for None.                                   *)
RecommendFrom(table, user_id, course_id) ==
  LET modules == CourseModules(course_id)
      module_ids == {modules[i].id : i \in 1..Len(modules)}
      completed == CompletedCount(table, user_id, module_ids)
  IN IF completed < Len(modules) THEN modules[completed + 1].id ELSE NoModule

recommend_module(user_id, course_id) == RecommendFrom(progress, user_id, course_id)

NoRow == [user_id |-> 0]

(* Progress.query.filter_by(user_id=..., module_id=...).first()            *)
FindProgress(table, user_id, module_id) ==
  LET hits == {r \in BagToSet(table) : r.user_id = user_id /\ r.module_id = module_id}
  IN IF hits = {} THEN NoRow ELSE CHOOSE r \in hits : TRUE

(* Variant: no unique constraint on (user_id, module_id).                  *)
InsertProgress_NoUnique(table, row) == table (+) SetToBag({row})

(* db.session.add(Progress(...)); commit: the constraint unique_user_module *)
(* makes the commit fail, and the except branch roll back, when the pair   *)
(* has a row.                                                              *)
InsertProgress(table, row) ==
  IF \E r \in BagToSet(table) : r.user_id = row.user_id /\ r.module_id = row.module_id
    THEN table
  ELSE table (+) SetToBag({row})

(* progress.completed = True; commit                                       *)
UpdateProgress(table, row) ==
  (table (-) SetToBag({row})) (+) SetToBag({[row EXCEPT !.completed = TRUE]})

(* The POST branch of view_module, given the row read before it.           *)
CompleteModule(table, user_id, module_id, found) ==
  IF found = NoRow THEN InsertProgress(table, ProgressRow(user_id, module_id, TRUE))
  ELSE UpdateProgress(table, found)

MaxUsers == 2

Users == 1..MaxUsers

MaxModuleId == 4

(* The modules requested: existing ones, of the first course and beyond.   *)
RequestedModules == {MODULES[i].id : i \in 1..MaxModuleId}

(* POST /module/<module_id> by a logged-in user, served on its own: the    *)
(* whole handler.  When the pair has its row the row is written again as   *)
(* it is.                                                                  *)
ViewModule(user_id, module_id) ==
  /\ progress' = CompleteModule(progress, user_id, module_id,
                                FindProgress(progress, user_id, module_id))
  /\ UNCHANGED <<enginevars, webvars, frames, inflight, accounts, now, payments>>

InitModules ==
  /\ NoEngine
  /\ frames = <<>>
  /\ progress = EmptyBag
  /\ inflight = <<>>
  /\ accounts = <<>>
  /\ now = 0
  /\ payments = <<>>

NextModules ==
  \E user_id \in Users, module_id \in RequestedModules : ViewModule(user_id, module_id)

SpecModules == InitModules /\ [][NextModules]_vars

----------------------------------------------------------------------------
(* view_module requests served at the same time: each reads the Progress   *)
(* table (the existence check) and commits later, other requests in        *)
(* between.                                                                *)

MaxInflight == 2

Workers == 1..MaxInflight

Idle == [user_id |-> 0]

(* The modules the concurrent requests are for.                            *)
RaceModules == {MODULES[1].id, MODULES[2].id}

(* The start of POST /module/<module_id>: get_or_404 and the read of the   *)
(* user's row for the module.                                              *)
ReadProgress(w, user_id, module_id) ==
  /\ inflight[w] = Idle
  /\ inflight' = [inflight EXCEPT ![w] =
                    [user_id |-> user_id, module_id |-> module_id,
                     found |-> FindProgress(progress, user_id, module_id)]]
  /\ UNCHANGED <<enginevars, webvars, frames, progress, accounts, now, payments>>

(* The rest of the request: the insert or the update, and the commit; the  *)
(* except branch when the commit fails.                                    *)
WriteProgress(w) ==
  LET r == inflight[w]
      table == CompleteModule(progress, r.user_id, r.module_id, r.found)
  IN /\ r # Idle
     /\ progress' = table
     /\ last' = [op |-> "view_module",
                 outcome |-> IF r.found = NoRow /\ table = progress THEN "error"
                             ELSE "completed"]
     /\ inflight' = [inflight EXCEPT ![w] = Idle]
     /\ UNCHANGED <<enginevars, store, issued, frames, accounts, now, payments>>

InitRace ==
  /\ NoEngine
  /\ frames = <<>>
  /\ progress = EmptyBag
  /\ inflight = [w \in Workers |-> Idle]
  /\ accounts = <<>>
  /\ now = 0
  /\ payments = <<>>

NextRace ==
  \E w \in Workers :
     \/ \E user_id \in Users, module_id \in RaceModules : ReadProgress(w, user_id, module_id)
     \/ WriteProgress(w)

SpecRace == InitRace /\ [][NextRace]_vars

----------------------------------------------------------------------------
(* Login and the lockout of an account.  Time is counted in minutes.       *)

(* locked_until IS NULL                                                    *)
NoTime == -1

MaxFailedLogins == 5

LockMinutes == 15

(* A User row as register leaves it: active, no failed attempt, no lock.   *)
NewAccount(email, password) ==
  [email |-> email, password |-> password, is_active |-> TRUE,
   failed_login_attempts |-> 0, locked_until |-> NoTime]

(* User.query.filter_by(email=email).first(): the position of the row, 0   *)
(* standing for None.                                                      *)
FindUser(table, email) ==
  LET hits == {i \in 1..Len(table) : table[i].email = email}
  IN IF hits = {} THEN 0 ELSE CHOOSE i \in hits : \A j \in hits : i <= j

(* Variant: the lock is never in force.                                    *)
is_locked_Never(user, t) == FALSE

(* User.is_locked() at time t.                                             *)
is_locked(user, t) == user.locked_until # NoTime /\ user.locked_until > t

(* check_password_hash(user.password, password): the row keeps the hash of *)
(* one password and only that password verifies.                           *)
CheckPassword(user, password) == user.password = password

(* User.increment_failed_login() at time t.                                *)
increment_failed_login(user, t) ==
  LET n == user.failed_login_attempts + 1
  IN [user EXCEPT !.failed_login_attempts = n,
                  !.locked_until = IF n >= MaxFailedLogins THEN t + LockMinutes ELSE @]

(* User.reset_failed_login()                                               *)
reset_failed_login(user) ==
  [user EXCEPT !.failed_login_attempts = 0, !.locked_until = NoTime]

LoginOutcome(email, password, outcome) ==
  [op |-> "login", email |-> email, password |-> password, outcome |-> outcome]

(* POST /login by a client that is not logged in.                          *)
Login(email, password) ==
  LET u == FindUser(accounts, email)
  IN /\ IF email = "" \/ password = ""
          THEN /\ last' = LoginOutcome(email, password, "missing")
               /\ UNCHANGED accounts
        ELSE IF u = 0
          THEN /\ last' = LoginOutcome(email, password, "unknown")
               /\ UNCHANGED accounts
        ELSE IF is_locked(accounts[u], now)
          THEN /\ last' = LoginOutcome(email, password, "locked")
               /\ UNCHANGED accounts
        ELSE IF CheckPassword(accounts[u], password)
          THEN IF ~accounts[u].is_active
                 THEN /\ last' = LoginOutcome(email, password, "inactive")
                      /\ UNCHANGED accounts
               ELSE /\ accounts' = [accounts EXCEPT ![u] = reset_failed_login(@)]
                    /\ last' = LoginOutcome(email, password, "success")
        ELSE /\ accounts' = [accounts EXCEPT ![u] = increment_failed_login(@, now)]
             /\ last' = LoginOutcome(email, password, "invalid")
     /\ UNCHANGED <<enginevars, store, issued, frames, progress, inflight, now, payments>>

MaxTime == 20

(* A minute passes.                                                        *)
Tick ==
  /\ now < MaxTime
  /\ now' = now + 1
  /\ UNCHANGED <<enginevars, webvars, frames, progress, inflight, accounts, payments>>

(* The addresses and passwords submitted: the ones of the account, others, *)
(* and none.                                                               *)
Emails == {"", "ada@example.com", "bob@example.com"}

Passwords == {"", "correct horse", "guess"}

InitLogin ==
  /\ NoEngine
  /\ frames = <<>>
  /\ progress = <<>>
  /\ inflight = <<>>
  /\ accounts = <<NewAccount("ada@example.com", "correct horse")>>
  /\ now = 0
  /\ payments = <<>>

NextLogin ==
  \/ \E email \in Emails, password \in Passwords : Login(email, password)
  \/ Tick

SpecLogin == InitLogin /\ [][NextLogin]_vars

----------------------------------------------------------------------------
(* Payments: enroll and payment_callback.  The Payment table is the bag of *)
(* its rows; amount, created_at and verified_at are written with the row   *)
(* and read by no handler, they are left out.                              *)

ReferencePrefix == "upskill_"

(* f'upskill_{current_user.id}_{secrets.token_hex(16)}', as its parts.     *)
MakeReference(user_id, token) == <<ReferencePrefix, user_id, token>>

(* The values secrets.token_hex(16) takes; few, so that one comes up again. *)
HexTokens == {"0a", "f3"}

PaymentRow(reference, status, user_id) ==
  [reference |-> reference, status |-> status, user_id |-> user_id]

(* db.session.add(payment); commit: reference is unique, the commit fails  *)
(* and the except branch rolls back when a row has the reference.          *)
InsertPayment(table, row) ==
  IF \E r \in BagToSet(table) : r.reference = row.reference THEN table
  ELSE table (+) SetToBag({row})

NoPayment == [reference |-> <<>>]

(* Variant: the payment is looked up by its reference alone.               *)
FindPayment_AnyUser(table, reference, user_id) ==
  LET hits == {r \in BagToSet(table) : r.reference = reference}
  IN IF hits = {} THEN NoPayment ELSE CHOOSE r \in hits : TRUE

(* Payment.query.filter_by(reference=reference, user_id=...).first()       *)
FindPayment(table, reference, user_id) ==
  LET hits == {r \in BagToSet(table) : r.reference = reference /\ r.user_id = user_id}
  IN IF hits = {} THEN NoPayment ELSE CHOOSE r \in hits : TRUE

(* payment.status = 'success'; commit                                      *)
MarkSuccess(table, row) ==
  (table (-) SetToBag({row})) (+) SetToBag({[row EXCEPT !.status = "success"]})

PaymentOutcome(op, user_id, reference, gateway, outcome) ==
  [op |-> op, user_id |-> user_id, reference |-> reference, gateway |-> gateway,
   outcome |-> outcome]

(* What the gateway answers to transaction/initialize: status true, a 200  *)
(* with status false, another status code, or no answer in time.           *)
InitializeAnswers == {"ok", "refused", "http_error", "timeout"}

(* What it answers to transaction/verify: a successful transaction, a 200  *)
(* that is not one, or no usable answer.                                   *)
VerifyAnswers == {"success", "not_success", "unavailable"}

PaymentPlans == {"full", "monthly", ""}

MaxPayers == 1

(* The users that enroll; every user may make a callback.                  *)
Payers == 1..MaxPayers

(* POST /enroll by a logged-in user.                                       *)
Enroll(user_id, payment_plan, token, answer) ==
  LET reference == MakeReference(user_id, token)
      table == InsertPayment(payments, PaymentRow(reference, "pending", user_id))
  IN /\ IF payment_plan \notin {"full", "monthly"}
          THEN /\ last' = PaymentOutcome("enroll", user_id, <<>>, "none", "invalid_plan")
               /\ UNCHANGED payments
        ELSE IF answer # "ok"
          THEN /\ last' = PaymentOutcome("enroll", user_id, reference, answer, "failed")
               /\ UNCHANGED payments
        ELSE IF table = payments
          THEN /\ last' = PaymentOutcome("enroll", user_id, reference, answer, "error")
               /\ UNCHANGED payments
        ELSE /\ payments' = table
             /\ last' = PaymentOutcome("enroll", user_id, reference, answer, "initiated")
     /\ UNCHANGED <<enginevars, store, issued, frames, progress, inflight, accounts, now>>

(* GET /payment_callback?reference=... by a logged-in user.                *)
PaymentCallback(user_id, reference, answer) ==
  LET payment == FindPayment(payments, reference, user_id)
  IN /\ IF reference = <<>> \/ reference[1] # ReferencePrefix
          THEN /\ last' = PaymentOutcome("callback", user_id, reference, "none", "invalid")
               /\ UNCHANGED payments
        ELSE IF answer # "success" \/ payment = NoPayment
          THEN /\ last' = PaymentOutcome("callback", user_id, reference, answer, "failed")
               /\ UNCHANGED payments
        ELSE /\ payments' = MarkSuccess(payments, payment)
             /\ last' = PaymentOutcome("callback", user_id, reference, answer, "verified")
     /\ UNCHANGED <<enginevars, store, issued, frames, progress, inflight, accounts, now>>

(* The references a callback is made with: every reference enroll can     *)
(* make, one with another prefix, and none.                                *)
References ==
  {MakeReference(user_id, token) : user_id \in Users, token \in HexTokens}
    \cup {<<"other_", 1, "0a">>, <<>>}

InitPayments ==
  /\ NoEngine
  /\ frames = <<>>
  /\ progress = <<>>
  /\ inflight = <<>>
  /\ accounts = <<>>
  /\ now = 0
  /\ payments = EmptyBag

NextPayments ==
  \/ \E user_id \in Payers, payment_plan \in PaymentPlans, token \in HexTokens,
        answer \in InitializeAnswers : Enroll(user_id, payment_plan, token, answer)
  \/ \E user_id \in Users, reference \in References, answer \in VerifyAnswers :
        PaymentCallback(user_id, reference, answer)

SpecPayments == InitPayments /\ [][NextPayments]_vars

----------------------------------------------------------------------------
(* The whole bank answered: the items of a mapping over the bank's ids are *)
(* drawn one at a time, in the order of the bank, each consumed by one     *)
(* pass of the loop.  Only the running scores are kept, and whether a list *)
(* drawn so far held a value twice.                                        *)

(* The option values of a question, in the order of the bank.              *)
ValuesInOrder(question) ==
  [i \in 1..Len(question.options) |-> question.options[i].value]

RECURSIVE Picked(_, _, _)
(* The values of a question at the positions in S, in the order of the     *)
(* bank, from position i on.                                               *)
Picked(question, S, i) ==
  IF i > Len(question.options) THEN <<>>
  ELSE (IF i \in S THEN <<question.options[i].value>> ELSE <<>>) \o Picked(question, S, i + 1)

MaxExtra == 3

(* The multiple question that comes last in the bank.                      *)
LastMultiple ==
  LET ms == {n \in 1..Len(QUESTIONNAIRE_QUESTIONS) :
               QUESTIONNAIRE_QUESTIONS[n].type = "multiple"}
  IN QUESTIONNAIRE_QUESTIONS[CHOOSE n \in ms : \A m \in ms : m <= n].id

(* The answers drawn for a question.  Single: no answer, or one of its     *)
(* options.  Multiple: any set of its options, each once; and, for the     *)
(* last multiple question, all of them followed by up to MaxExtra more     *)
(* copies of one.                                                          *)
BankAnswers(question) ==
  IF question.type = "single"
    THEN {NoneAns} \cup {StrAns(v) : v \in OptionValues(question)}
  ELSE {ListAns(Picked(question, S, 1)) : S \in SUBSET (1..Len(question.options))}
         \cup {ListAns(ValuesInOrder(question) \o Repeated(v, k)) :
                 v \in (IF question.id = LastMultiple THEN OptionValues(question) ELSE {}),
                 k \in 1..MaxExtra}

(* Whether a list holds a value twice.                                     *)
HasRepeat(answer) ==
  /\ answer.kind = "list"
  /\ \E i, j \in 1..Len(answer.vals) : i < j /\ answer.vals[i] = answer.vals[j]

InitBank ==
  /\ responses = <<>>
  /\ idx = 1
  /\ scores = ZeroScores
  /\ pc = "loop"
  /\ recommended_course = NoCourse
  /\ match_percentage = 0
  /\ NoRequests

(* The items drawn for each question of the bank, tabulated.               *)
BankItems ==
  [n \in 1..Len(QUESTIONNAIRE_QUESTIONS) |->
     {Entry(QUESTIONNAIRE_QUESTIONS[n].id, answer) :
        answer \in BankAnswers(QUESTIONNAIRE_QUESTIONS[n])}]

(* One pass of the loop, over the item drawn for the next question.        *)
IterateBank ==
  /\ pc = "loop"
  /\ idx <= Len(QUESTIONNAIRE_QUESTIONS)
  /\ \E item \in BankItems[idx] :
        /\ scores' = ProcessEntry(scores, item)
        /\ repeats' = (repeats \/ HasRepeat(item.answer))
  /\ idx' = idx + 1
  /\ UNCHANGED <<responses, pc, recommended_course, match_percentage, returned, webvars,
                 appvars>>

(* The code after the loop, once every item is consumed.                   *)
FinishBank ==
  /\ pc = "loop"
  /\ idx > Len(QUESTIONNAIRE_QUESTIONS)
  /\ recommended_course' = RecommendedCourse(scores)
  /\ match_percentage' = MatchPercentage(scores)
  /\ pc' = "done"
  /\ UNCHANGED <<responses, idx, scores, returned, repeats, webvars, appvars>>

NextBank == IterateBank \/ FinishBank

SpecBank == InitBank /\ [][NextBank]_vars

----------------------------------------------------------------------------
(* Vocabulary of the properties.                                           *)

Done == pc = "done"

RECURSIVE SumOver(_, _)
SumOver(f, S) ==
  IF S = {} THEN 0
  ELSE LET x == CHOOSE y \in S : TRUE IN f[x] + SumOver(f, S \ {x})

(* The component of an option's score vector that belongs to a track.      *)
Component(option, t) ==
  IF t = Cyber THEN option.cyber ELSE IF t = Data THEN option.data ELSE option.web

(* How many times an answer selects the option value of a question of the  *)
(* given type: the answer itself for a single question, each element of    *)
(* the list for a multiple question.                                       *)
Selections(type, answer, value) ==
  IF type = "single" /\ answer.kind = "str" THEN (IF answer.val = value THEN 1 ELSE 0)
  ELSE IF type = "multiple" /\ answer.kind = "list"
    THEN Cardinality({j \in 1..Len(answer.vals) : answer.vals[j] = value})
  ELSE 0

(* The resolved selections of a mapping: <<entry, question, option>>.      *)
Resolved(resp) ==
  {x \in (1..Len(resp)) \X (1..Len(QUESTIONNAIRE_QUESTIONS)) \X (1..6) :
     /\ QUESTIONNAIRE_QUESTIONS[x[2]].id = resp[x[1]].id
     /\ x[3] <= Len(QUESTIONNAIRE_QUESTIONS[x[2]].options)
     /\ Selections(QUESTIONNAIRE_QUESTIONS[x[2]].type, resp[x[1]].answer,
                   QUESTIONNAIRE_QUESTIONS[x[2]].options[x[3]].value) > 0}

SelectionSum(resp, t) ==
  LET R == Resolved(resp)
      term == [x \in R |->
                 Selections(QUESTIONNAIRE_QUESTIONS[x[2]].type, resp[x[1]].answer,
                            QUESTIONNAIRE_QUESTIONS[x[2]].options[x[3]].value)
                   * Component(QUESTIONNAIRE_QUESTIONS[x[2]].options[x[3]], t)]
  IN SumOver(term, R)

AllZero == \A t \in Tracks : scores[t] = 0

WinningScore == CHOOSE v \in {scores[t] : t \in Tracks} : \A t \in Tracks : scores[t] <= v

----------------------------------------------------------------------------
(* C1: the returned score vector is, for each of the three tracks, the sum *)
(* of that track's component over exactly the resolved selections of the   *)
(* mapping (the matching option of a single question, every matching list  *)
(* element of a multiple question), starting from zero.                    *)
C1_ScoresAreSelectionSums ==
  Done => \A t \in Tracks : scores[t] = SelectionSum(responses, t)

C1_Witness ==
  /\ Done
  /\ Len(responses) = 2
  /\ \E i, j \in 1..2 :
       /\ responses[i].answer.kind = "list" /\ Len(responses[i].answer.vals) >= 2
       /\ responses[j].answer.kind = "str"
  /\ Cardinality(Resolved(responses)) = 2
  /\ \A t \in Tracks : scores[t] > 0

(* C2: when every track's accumulated score is zero the result is the      *)
(* default track 'Web App Development with AI' with percentage 60 and an   *)
(* all-zero score vector, not the first-maximum track the max logic gives. *)
C2_ZeroScoresGiveDefault ==
  (Done /\ AllZero) =>
     /\ recommended_course = "Web App Development with AI"
     /\ match_percentage = 60
     /\ scores = [t \in Tracks |-> 0]
     /\ recommended_course # TrackOrder[1]

C2_Witness ==
  /\ Done /\ AllZero
  /\ Len(responses) = 2
  /\ recommended_course = "Web App Development with AI"

(* C3: when some track's score is non-zero the match percentage is         *)
(* min(floor(winning_score * 100 / total_possible), 99) with               *)
(* total_possible = 16 questions * 5 = 80.                                 *)
C3_PercentageFormula ==
  (Done /\ ~AllZero) =>
     /\ Len(QUESTIONNAIRE_QUESTIONS) = 16
     /\ match_percentage =
          (IF (WinningScore * 100) \div 80 <= 99 THEN (WinningScore * 100) \div 80 ELSE 99)

C3_Witness ==
  /\ Done /\ ~AllZero
  /\ WinningScore = 37
  /\ match_percentage = 46

(* C4: for every response mapping the returned match percentage is an      *)
(* integer between 0 and 99.                                               *)
C4_PercentageBound ==
  Done => (match_percentage \in Int /\ 0 <= match_percentage /\ match_percentage <= 99)

C4_Witness ==
  /\ Done
  /\ WinningScore > 80
  /\ match_percentage = 99

(* C5: when some track's score is non-zero the returned track is one of    *)
(* the three tracks and no other track has a greater accumulated score.    *)
C5_WinnerHasMaxScore ==
  (Done /\ ~AllZero) =>
     /\ recommended_course \in Tracks
     /\ \A t \in Tracks : scores[recommended_course] >= scores[t]

C5_Witness ==
  /\ Done /\ ~AllZero
  /\ recommended_course = Web
  /\ scores[Web] > scores[Cyber]
  /\ scores[Web] > scores[Data]

----------------------------------------------------------------------------
(* Mappings derived from the one the invocation was given.                 *)

InsertAt(resp, pos, e) == SubSeq(resp, 1, pos) \o <<e>> \o SubSeq(resp, pos + 1, Len(resp))

RemoveAt(resp, i) == SubSeq(resp, 1, i - 1) \o SubSeq(resp, i + 1, Len(resp))

Reordered(resp) ==
  {[i \in 1..Len(resp) |-> resp[p[i]]] :
     p \in {f \in [1..Len(resp) -> 1..Len(resp)] :
              \A i, j \in 1..Len(resp) : f[i] = f[j] => i = j}}

Keys(resp) == {resp[i].id : i \in 1..Len(resp)}

Result == <<recommended_course, match_percentage, scores>>

ScoresOf(resp) == ScoreFrom(ZeroScores, resp, 1)

(* The entries of the mapping that answer a multiple question by a list.   *)
ListEntries ==
  {i \in 1..Len(responses) :
     /\ responses[i].id \in BankIds
     /\ QUESTIONNAIRE_QUESTIONS[FindQuestion(responses[i].id)].type = "multiple"
     /\ responses[i].answer.kind = "list"}

QuestionOf(i) == QUESTIONNAIRE_QUESTIONS[FindQuestion(responses[i].id)]

TiedAtMax == {i \in 1..3 : scores[TrackOrder[i]] = WinningScore}

----------------------------------------------------------------------------
(* C6: when two or three tracks tie for a non-zero maximum the winner is   *)
(* the tied track that comes first in the order (Cybersecurity with AI,    *)
(* Data Engineering for AI, Web App Development with AI), whatever the     *)
(* order in which the entries of the mapping are iterated.                 *)
C6_TieGoesToFirstInOrder ==
  (Done /\ ~AllZero /\ Cardinality(TiedAtMax) >= 2) =>
     /\ recommended_course =
          <<"Cybersecurity with AI", "Data Engineering for AI",
            "Web App Development with AI">>[CHOOSE i \in TiedAtMax : \A j \in TiedAtMax : i <= j]
     /\ \A r \in Reordered(responses) :
          calculate_course_recommendation(r)[1] = recommended_course

C6_Witness ==
  /\ Done /\ ~AllZero
  /\ Len(responses) = 2
  /\ scores[Data] = scores[Web]
  /\ scores[Cyber] < scores[Data]
  /\ recommended_course = Data

(* C7: an entry whose question id is not in the bank raises no error and   *)
(* leaves the winning track, the percentage and every score unchanged:     *)
(* adding one at any position gives the same result, and a mapping that    *)
(* holds one gives the result of the mapping without it.                   *)
C7_UnknownIdIgnored ==
  Done =>
     /\ \A a \in AnswersFor("q17", 1) : \A pos \in 0..Len(responses) :
          calculate_course_recommendation(InsertAt(responses, pos, Entry("q17", a))) = Result
     /\ \A i \in 1..Len(responses) :
          responses[i].id \notin BankIds =>
             calculate_course_recommendation(RemoveAt(responses, i)) = Result

C7_Witness ==
  /\ Done /\ ~AllZero
  /\ \E i \in 1..Len(responses) :
       /\ responses[i].id \notin BankIds
       /\ responses[i].answer = StrAns("advanced")
  /\ \E i \in 1..Len(responses) : responses[i].id \in BankIds

(* C8: for a known question a selected value that is none of its option    *)
(* values adds nothing and raises no error: such a single answer scores as *)
(* if the entry were absent, and a list scores as the list of its          *)
(* resolvable elements alone, each of which still contributes.             *)
C8_UnknownValueIgnored ==
  Done =>
     \A i \in 1..Len(responses) :
        responses[i].id \in BankIds =>
          LET q == QuestionOf(i)
              a == responses[i].answer
              known(v) == v \in OptionValues(q)
          IN /\ (q.type = "single" /\ a.kind = "str" /\ ~known(a.val)) =>
                   ScoresOf(RemoveAt(responses, i)) = scores
             /\ i \in ListEntries =>
                   /\ ScoresOf([responses EXCEPT
                                  ![i].answer = ListAns(SelectSeq(a.vals, known))]) = scores
                   /\ \A j \in 1..Len(a.vals) : \A o \in 1..Len(q.options) :
                        q.options[o].value = a.vals[j] =>
                          \A t \in Tracks : scores[t] >= Component(q.options[o], t)

C8_Witness ==
  /\ Done /\ ~AllZero
  /\ \E i \in ListEntries :
       /\ Len(responses[i].answer.vals) = 2
       /\ responses[i].answer.vals[1] = NoSuchValue
       /\ responses[i].answer.vals[2] \in OptionValues(QuestionOf(i))

(* C9: for a multiple question every occurrence of a resolvable value in   *)
(* the list adds that option's vector once: what the entry adds is, per    *)
(* track, the sum over the options of (occurrences * component); nothing   *)
(* is deduplicated.                                                        *)
C9_EveryOccurrenceCounts ==
  Done =>
     \A i \in ListEntries :
        LET q == QuestionOf(i)
            vals == responses[i].answer.vals
            count == [o \in 1..Len(q.options) |->
                        Cardinality({j \in 1..Len(vals) : vals[j] = q.options[o].value})]
            rest == ScoresOf(RemoveAt(responses, i))
        IN \A t \in Tracks :
              scores[t] - rest[t] =
                SumOver([o \in 1..Len(q.options) |-> count[o] * Component(q.options[o], t)],
                        1..Len(q.options))

C9_Witness ==
  /\ Done
  /\ Len(responses) = 1
  /\ ListEntries = {1}
  /\ responses[1].answer.vals = <<"python", "python">>
  /\ scores = [t \in Tracks |-> IF t = Data THEN 6 ELSE 4]

(* C10: one more resolvable answer (a further answered question, or one    *)
(* more element in the list of a multiple question) lowers no track's      *)
(* score and raises each by exactly the chosen option's component.         *)
C10_Monotone ==
  Done =>
     /\ \A n \in 1..Len(QUESTIONNAIRE_QUESTIONS) :
          LET q == QUESTIONNAIRE_QUESTIONS[n]
          IN q.id \notin Keys(responses) =>
               \A o \in 1..Len(q.options) :
                  LET a == IF q.type = "single" THEN StrAns(q.options[o].value)
                           ELSE ListAns(<<q.options[o].value>>)
                      more == ScoresOf(Append(responses, Entry(q.id, a)))
                  IN \A t \in Tracks :
                        /\ more[t] >= scores[t]
                        /\ more[t] = scores[t] + Component(q.options[o], t)
     /\ \A i \in ListEntries :
          \A o \in 1..Len(QuestionOf(i).options) :
             LET opt == QuestionOf(i).options[o]
                 more == ScoresOf([responses EXCEPT
                                     ![i].answer = ListAns(Append(@.vals, opt.value))])
             IN \A t \in Tracks :
                   /\ more[t] >= scores[t]
                   /\ more[t] = scores[t] + Component(opt, t)

C10_Witness ==
  /\ Done /\ ~AllZero
  /\ Len(responses) = 2
  /\ ListEntries # {}
  /\ Keys(responses) \subseteq BankIds

----------------------------------------------------------------------------
(* The invocations that have returned, the current one included.           *)
Completed ==
  returned \o (IF Done THEN <<[responses |-> responses, result |-> Result]>> ELSE <<>>)

(* Equal dicts: the same items, whatever the insertion order.              *)
SameMapping(a, b) ==
  /\ Len(a) = Len(b)
  /\ {a[i] : i \in 1..Len(a)} = {b[i] : i \in 1..Len(b)}

(* C11: two invocations with equal response mappings return the identical  *)
(* (track, percentage, scores) triple, whatever was invoked before and in  *)
(* whatever order the entries of the mapping are iterated.                 *)
C11_Deterministic ==
  \A i, j \in 1..Len(Completed) :
     SameMapping(Completed[i].responses, Completed[j].responses) =>
        Completed[i].result = Completed[j].result

C11_Witness ==
  /\ Done
  /\ Len(returned) = 2
  /\ Len(responses) = 2
  /\ returned[1].responses = <<responses[2], responses[1]>>
  /\ ~SameMapping(returned[2].responses, responses)
  /\ returned[2].result[3] # ZeroScores
  /\ returned[1].result = Result

(* An answer whose shape does not fit the cardinality of its question.     *)
ShapeMismatch(i) ==
  /\ responses[i].id \in BankIds
  /\ \/ QuestionOf(i).type = "single" /\ responses[i].answer.kind # "str"
     \/ QuestionOf(i).type = "multiple" /\ responses[i].answer.kind # "list"

(* C12: the function never ends in an error, whatever the shape of the     *)
(* answers (str, None or list, for either cardinality): it goes on to      *)
(* return a result, and an entry whose shape does not fit its question is  *)
(* dropped.                                                                *)
C12_NeverRaises ==
  /\ pc \in {"loop", "done"}
  /\ pc = "loop" => idx <= Len(responses) + 1
  /\ \A i \in 1..Len(responses) : ~EntryRaises(responses[i])
  /\ Done =>
       /\ recommended_course \in Tracks
       /\ \A i \in 1..Len(responses) :
            ShapeMismatch(i) => ScoresOf(RemoveAt(responses, i)) = scores

C12_Witness ==
  /\ Done
  /\ Len(responses) = 1
  /\ ShapeMismatch(1)
  /\ QuestionOf(1).type = "multiple"
  /\ responses[1].answer = NoneAns
  /\ recommended_course = DefaultCourse

(* Scenario A: every bank question answered, each by exactly one option    *)
(* whose cyber component is the greatest of its question.                  *)
IsScenarioA ==
  /\ Keys(responses) = BankIds
  /\ Len(responses) = Len(QUESTIONNAIRE_QUESTIONS)
  /\ \A i \in 1..Len(responses) :
       LET q == QuestionOf(i)
           picked == IF q.type = "single" THEN <<responses[i].answer.val>>
                     ELSE responses[i].answer.vals
       IN /\ ~ShapeMismatch(i)
          /\ Len(picked) = 1
          /\ \E o \in 1..Len(q.options) :
               /\ q.options[o].value = picked[1]
               /\ \A k \in 1..Len(q.options) : q.options[k].cyber <= q.options[o].cyber

(* C13: in scenario A the winning track is 'Cybersecurity with AI', its    *)
(* score is the sum of the greatest cyber components of the 16 questions   *)
(* (61), and the percentage is min(floor(cyber score * 100 / 80), 99).     *)
C13_ScenarioA ==
  (Done /\ IsScenarioA) =>
     /\ recommended_course = "Cybersecurity with AI"
     /\ scores[Cyber] =
          SumOver([n \in 1..Len(QUESTIONNAIRE_QUESTIONS) |->
                     MaxCyber(QUESTIONNAIRE_QUESTIONS[n])],
                  1..Len(QUESTIONNAIRE_QUESTIONS))
     /\ scores[Cyber] = 61
     /\ match_percentage =
          (IF (scores[Cyber] * 100) \div 80 <= 99 THEN (scores[Cyber] * 100) \div 80 ELSE 99)

C13_Witness ==
  /\ Done /\ IsScenarioA
  /\ responses[1].id = "q16"
  /\ match_percentage = 76

(* C14: mappings exist whose uncapped value floor(winning_score * 100 / 80) *)
(* exceeds 100, and for every one of them the returned percentage is 99.   *)
C14_CapMasksOverflow ==
  (Done /\ (WinningScore * 100) \div 80 > 100) => match_percentage = 99

C14_Witness ==
  /\ Done
  /\ (WinningScore * 100) \div 80 > 100
  /\ ListEntries # {}
  /\ match_percentage = 99

----------------------------------------------------------------------------
(* Properties of the two handlers.                                         *)

(* The track and the percentage the engine returns for a mapping.          *)
EngineCourse(resp) == calculate_course_recommendation(resp)[1]

EnginePercent(resp) == calculate_course_recommendation(resp)[2]

(* The tokens of the successful submissions so far.                        *)
IssuedTokens == {x.token : x \in issued}

(* C15: looking up a result by the token issued for a successful           *)
(* submission yields the track and the match percentage the engine         *)
(* returned for that submission's responses, whatever submissions and      *)
(* lookups came in between.                                                *)
C15_RoundTrip ==
  /\ (last.op = "submit" /\ last.outcome = "stored") =>
        [token |-> last.token, course |-> EngineCourse(last.responses),
         pct |-> EnginePercent(last.responses)] \in issued
  /\ \A x \in issued :
        LET r == LookupRow(store, x.token)
        IN /\ r # 0
           /\ CourseOfRow(store[r]) = x.course
           /\ store[r].match_percentage = x.pct
  /\ \A x \in issued :
        (last.op = "results" /\ last.token = x.token) =>
           /\ last.outcome = "shown"
           /\ last.course = x.course
           /\ last.pct = x.pct

C15_Witness ==
  /\ last.op = "results"
  /\ last.outcome = "shown"
  /\ Len(store) = 2
  /\ last.token = store[1].session_id
  /\ last.course = "Data Engineering for AI"
  /\ store[2].recommended_course_id # store[1].recommended_course_id

(* The entries of a mapping (its keys are distinct) that give a question   *)
(* of the bank a non-empty answer.                                         *)
NonEmptyAnswers(resp) ==
  {i \in 1..Len(resp) :
     /\ resp[i].id \in BankIds
     /\ \/ resp[i].answer.kind = "str" /\ resp[i].answer.val # ""
        \/ resp[i].answer.kind = "list" /\ Len(resp[i].answer.vals) > 0}

(* C16: questionnaire_submit invokes the engine and persists a record only *)
(* when at least 5 of the bank's questions have a non-empty answer; with   *)
(* fewer the request is turned away and the stored records are unchanged.  *)
C16_AnswerGate ==
  [][ /\ store' # store => last'.op = "submit"
      /\ last'.op = "submit" =>
           LET answered == Cardinality(NonEmptyAnswers(last'.responses))
           IN /\ answered < 5 =>
                   /\ last'.outcome = "rejected"
                   /\ ~last'.engine
                   /\ store' = store
              /\ (last'.engine \/ store' # store) => answered >= 5 ]_vars

C16_Witness ==
  /\ last.op = "submit"
  /\ last.outcome = "rejected"
  /\ Cardinality(NonEmptyAnswers(last.responses)) = 4
  /\ \E i \in 1..Len(last.responses) : last.responses[i].answer = StrAns("")
  /\ Len(store) = 1

(* A token that is empty, longer than 100 characters, or has a character   *)
(* outside A-Z, a-z, 0-9, '_' and '-'.                                     *)
Malformed(token) ==
  \/ token = <<>>
  \/ Len(token) > 100
  \/ \E i \in 1..Len(token) : ~IsTokenChar(token[i])

(* C17: a result lookup whose token is malformed ends in the not-found     *)
(* outcome without any query being issued to the store.                    *)
C17_MalformedUnqueried ==
  (last.op = "results" /\ Malformed(last.token)) =>
     (last.outcome = "not_found" /\ ~last.queried)

(* C18: a lookup never returns a record whose stored session token differs *)
(* from the requested token, and a well-formed token that no submission    *)
(* issued yields the not-found outcome.                                    *)
C18_ExactMatch ==
  last.op = "results" =>
     /\ last.row # 0 =>
          /\ last.row \in 1..Len(store)
          /\ store[last.row].session_id = last.token
     /\ last.outcome \in {"shown", "no_course"} => last.row # 0
     /\ (~Malformed(last.token) /\ last.token \notin IssuedTokens) =>
          (last.outcome = "not_found" /\ last.row = 0)

C18_Witness ==
  /\ last.op = "results"
  /\ last.token = <<"a">>
  /\ Len(store) = 2
  /\ last.queried
  /\ last.outcome = "not_found"

(* No two rows of a table carry the same session token.                    *)
UniqueTokens(table) ==
  \A i, j \in 1..Len(table) : table[i].session_id = table[j].session_id => i = j

(* C19: no two persisted records carry the same session token; every       *)
(* successful submission stores its result under a token no earlier record *)
(* uses, and a submission whose token would collide stores nothing.        *)
C19_UniqueTokens ==
  [][ /\ UniqueTokens(store')
      /\ (last'.op = "submit" /\ last'.outcome = "stored") =>
           /\ \A i \in 1..Len(store) : store[i].session_id # last'.token
           /\ store' = Append(store, store'[Len(store')])
           /\ store'[Len(store')].session_id = last'.token
      /\ (last'.op = "submit" /\ last'.engine
            /\ \E i \in 1..Len(store) : store[i].session_id = last'.token) =>
           /\ store' = store
           /\ last'.outcome = "error" ]_vars

C19_Witness ==
  /\ last.op = "submit"
  /\ last.outcome = "error"
  /\ last.engine
  /\ Len(store) = 1
  /\ store[1].session_id = last.token

(* C20: a persisted record is created once, at submission time, and is     *)
(* never mutated or deleted afterwards: every step keeps each stored       *)
(* record's token, track and percentage where it is, and the stored        *)
(* records only grow, by one record of a successful submission.            *)
C20_Immutable ==
  [][ /\ Len(store) <= Len(store')
      /\ \A i \in 1..Len(store) : store'[i] = store[i]
      /\ Len(store') <= Len(store) + 1
      /\ Len(store') > Len(store) => (last'.op = "submit" /\ last'.outcome = "stored")
      /\ last'.op = "results" => store' = store ]_vars

C20_Witness ==
  /\ Len(store) = 2
  /\ last.op = "results"
  /\ last.outcome = "shown"
  /\ last.row = 1
  /\ store[1].match_percentage # store[2].match_percentage

----------------------------------------------------------------------------
(* Properties of the engine under concurrent invocation.                   *)

(* C21: the engine shares no mutable state between invocations: no step    *)
(* changes the response mapping of any invocation, and however the steps   *)
(* of the invocations interleave, each returns exactly what it returns     *)
(* when run alone on its own mapping.                                      *)
C21_NoSharedState ==
  [][ \A p \in Invocations :
        /\ frames'[p].responses = frames[p].responses
        /\ frames'[p].pc = "done" =>
             <<frames'[p].recommended_course, frames'[p].match_percentage,
               frames'[p].result_scores>>
               = calculate_course_recommendation(frames'[p].responses) ]_vars

C21_Witness ==
  /\ \A p \in Invocations : frames[p].pc = "done" /\ frames[p].overlapped
  /\ Len(frames[1].responses) = 2
  /\ frames[1].recommended_course # frames[2].recommended_course
  /\ frames[1].result_scores # frames[2].result_scores

----------------------------------------------------------------------------
(* Properties of recommend_module and view_module.                         *)

Courses == 1..Len(COURSES)

ModuleIdsOf(course_id) ==
  {MODULES[i].id : i \in {j \in 1..Len(MODULES) : MODULES[j].course_id = course_id}}

(* The rows of a table that belong to the modules of one course.           *)
RowsOfCourse(table, course_id) ==
  [r \in {x \in BagToSet(table) : x.module_id \in ModuleIdsOf(course_id)} |->
     CopiesIn(r, table)]

(* Whether the user has a completed row for the module.                    *)
HasCompleted(user_id, module_id) ==
  BagIn(ProgressRow(user_id, module_id, TRUE), progress)

(* C22: recommend_module(user, course) counts only completions of modules  *)
(* of that course: what it returns is what it returns when the completions *)
(* of the modules of every other course are taken away.                    *)
C22_OtherCoursesIgnored ==
  \A user_id \in Users, course_id \in Courses :
     recommend_module(user_id, course_id)
       = RecommendFrom(RowsOfCourse(progress, course_id), user_id, course_id)

C22_Witness ==
  /\ HasCompleted(1, 1)
  /\ HasCompleted(1, 4)
  /\ ~HasCompleted(1, 2)
  /\ recommend_module(1, 1) = 2
  /\ recommend_module(1, 2) = 5

(* C23: a module returned by recommend_module for a course is never one    *)
(* the user has completed, and recommend_module returns None exactly when  *)
(* the user has completed every module of the course.                      *)
C23_NextIsNotCompleted ==
  \A user_id \in Users, course_id \in Courses :
     LET module_id == recommend_module(user_id, course_id)
     IN /\ module_id # NoModule => ~HasCompleted(user_id, module_id)
        /\ module_id = NoModule <=>
             \A m \in ModuleIdsOf(course_id) : HasCompleted(user_id, m)

(* The number of rows a table has for a (user, module) pair.               *)
PairRows(table, user_id, module_id) ==
  RowCount(table, {r \in BagToSet(table) : r.user_id = user_id /\ r.module_id = module_id})

(* C26: for every (user, module) pair there is at most one Progress row at *)
(* any time, also when requests for the same pair interleave between the   *)
(* existence check and the commit; and once a row's completed flag is true *)
(* no request sets it back to false.                                       *)
C26_OneRowPerPair ==
  [][ \A user_id \in Users, module_id \in RaceModules :
        /\ PairRows(progress', user_id, module_id) <= 1
        /\ BagIn(ProgressRow(user_id, module_id, TRUE), progress) =>
             /\ BagIn(ProgressRow(user_id, module_id, TRUE), progress')
             /\ ~BagIn(ProgressRow(user_id, module_id, FALSE), progress') ]_vars

C26_Witness ==
  /\ last = [op |-> "view_module", outcome |-> "error"]
  /\ PairRows(progress, 1, 1) = 1
  /\ \E w \in Workers :
       /\ inflight[w] # Idle
       /\ inflight[w].user_id = 1 /\ inflight[w].module_id = 1
       /\ inflight[w].found # NoRow

----------------------------------------------------------------------------
(* Properties of login.                                                    *)

(* The lock of a row is in force at time t.                                *)
LockInForce(user, t) == user.locked_until # NoTime /\ t < user.locked_until

(* The step is a login attempt for the account at position u.              *)
AttemptFor(u) ==
  /\ last' # last
  /\ last'.op = "login"
  /\ last'.email = accounts[u].email
  /\ last'.password # ""

----------------------------------------------------------------------------
(* Properties of the payment handlers.                                     *)

(* The rows a table has for a reference.                                   *)
PaymentsFor(table, reference) == {r \in BagToSet(table) : r.reference = reference}

(* C25: a Payment row comes into being only in an enroll request whose     *)
(* gateway initialization succeeded, with status 'pending'; its status     *)
(* becomes 'success' only in a callback made by the user who owns the row, *)
(* for the row's own reference, after the gateway verified that reference  *)
(* as successful; once 'success' the status never returns to 'pending'.    *)
C25_PaymentLifecycle ==
  [][ \A reference \in References :
        LET before == PaymentsFor(payments, reference)
            after == PaymentsFor(payments', reference)
        IN /\ (before = {} /\ after # {}) =>
                /\ last'.op = "enroll"
                /\ last'.gateway = "ok"
                /\ last'.reference = reference
                /\ after = {PaymentRow(reference, "pending", last'.user_id)}
           /\ before # {} => (after # {} /\ {r.user_id : r \in after} = {r.user_id : r \in before})
           /\ \A r \in after :
                (r.status = "success" /\ r \notin before) =>
                   /\ last'.op = "callback"
                   /\ last'.user_id = r.user_id
                   /\ last'.reference = r.reference
                   /\ last'.gateway = "success"
                   /\ PaymentRow(reference, "pending", r.user_id) \in before
           /\ \A r \in after : r.status \in {"pending", "success"}
           /\ \A r \in before : r.status = "success" => after = before ]_vars

C25_Witness ==
  /\ last = PaymentOutcome("callback", 2, MakeReference(1, "0a"), "success", "failed")
  /\ BagIn(PaymentRow(MakeReference(1, "0a"), "pending", 1), payments)
  /\ BagIn(PaymentRow(MakeReference(1, "f3"), "success", 1), payments)

----------------------------------------------------------------------------
(* The whole bank.                                                         *)

(* C27: with the reference bank, for every mapping in which no answer list *)
(* of a multiple question holds a value twice, the winning score is at     *)
(* most 73 and floor(winning score * 100 / 80) at most 91, so the returned *)
(* percentage is the uncapped one; the cap at 99 takes effect only when a  *)
(* list repeats a value.                                                   *)
C27_BankMaximum ==
  /\ ~repeats =>
        /\ WinningScore <= 73
        /\ (WinningScore * 100) \div 80 <= 91
        /\ (Done /\ WinningScore > 0) => match_percentage = (WinningScore * 100) \div 80
  /\ (Done /\ (WinningScore * 100) \div 80 > 99) => repeats

C27_Witness ==
  /\ Done
  /\ ~repeats
  /\ WinningScore = 73
  /\ match_percentage = 91
  /\ recommended_course = "Data Engineering for AI"

====
